---- MODULE Spec2Model ----
(***************************************************************************)
(* Model of the PTY session subsystem of multicode.                        *)
(*                                                                         *)
(*   pty-helper.mjs   the supervisor: one Node process per open terminal,  *)
(*                    spawning the child in a pty and implementing the     *)
(*                    session-resume retry protocol;                       *)
(*   routes/__root    the dashboard: the tab list, openClaudeCode and the  *)
(*                    Terminal onExit callback that consumes the marker    *)
(*                    file ~/.multicode/session-update.json;               *)
(*   Terminal.tsx     the Terminal component: the effect that spawns the   *)
(*                    helper and its cleanup, sendKey, the xterm screen    *)
(*                    buffer with the debounced updateDisplay, and         *)
(*                    extractStyledText with the colour resolver.          *)
(*                                                                         *)
(* Strings that the code searches (outputBuffer.includes) are sequences of *)
(* words; chunks are short word sequences, concatenation is \o.  Session   *)
(* ids are strings.  The clock `now` is Date.now() in milliseconds.        *)
(***************************************************************************)
EXTENDS Integers, Sequences, FiniteSets, TLC

VARIABLES
    tabs,               \* __root: the tab list (sessionId, isNewSession, isTerminalOpen)
    now,                \* Date.now()
    sessionUpdateFile,  \* content of ~/.multicode/session-update.json
    helper,             \* per tab: the state of its pty-helper process
    hist,               \* per tab: history of the current helper run (ghost)
    observed,           \* per tab: what its last onExit saw in the marker file (ghost)
    budget,             \* counters of the events explored so far
    limits,             \* the bounds of the exploration (constant in a behaviour)
    term,               \* per tab: the refs of its Terminal component
    proc,               \* per helper process: the effect closure that spawned it
    screen,             \* the lines of an xterm buffer, oldest first
    viewport,           \* the geometry of that buffer: rows, baseY, cursorY
    resolved,           \* a colour given to xtermColorToRGBA and its result
    runs                \* the chunks extractStyledText returned for it

vars == <<tabs, now, sessionUpdateFile, helper, hist, observed, budget, limits,
          term, proc, screen, viewport, resolved, runs>>

component == <<term, proc>>
display   == <<screen, viewport, resolved, runs>>

-----------------------------------------------------------------------------
(* Bounds *)

\* one tab (Spec)
MaxOpens == 2
MaxEmit  == 2
MaxTicks == 2
MaxUUID  == 3

\* two tabs, as many opens as tabs (SpecTabs)
TabsEmit  == 1
TabsTicks == 1
TabsUUID  == 2

TickStep == 1000

\* one tab and its keyboard (SpecKeys)
MaxKeys == 2

\* one tab and its output (SpecTerm)
MaxFeed == 2

\* one tab and its teardown (SpecStop)
MaxStopEmit == 2

\* the cells of a line of the screen (SpecExtract)
ScreenCols == 3

\* the chunks the children of two tabs print (SpecRace)
RaceEmit == 2

\* the opens of a tab and the restarts of the dashboard (SpecOpen)
MaxReopens == 3
MaxRestarts == 1

\* the tabs that are closed (SpecClose)
MaxCloses == 1

\* the lines a child prints (SpecScroll)
MaxPrints == 4

(* Program constants *)

DetectionWindow == 2000
RecencyWindow   == 30000

Tabs == DOMAIN tabs

\* the helper processes: the one of the running effect of tab i is i, the
\* one of the effect that was cleaned up before it is OldSlot(i)
Procs      == DOMAIN helper
OldSlot(i) == i + Len(tabs)

Undefined == "undefined"       \* JS undefined / null (falsy)
Truthy(x) == x # Undefined

NoFile    == [kind |-> "missing"]   \* existsSync() = false
EmptyFile == [kind |-> "empty"]     \* opened with O_TRUNC, content not yet written

ExitCodes == {0, 1}

\* output chunks a child may emit
Chunks == { <<"No", "conversation", "found">>,
            <<"Session", "ID">>,
            <<"not", "found">> }

\* outcome of the marker write of one retry: it succeeds, it throws before the
\* file is touched (mkdirSync, or the open of writeFileSync), or it throws
\* after the file was opened with O_TRUNC
FsOutcomes == {"ok", "mkdirThrows", "writeThrows"}

Restored(i)   == "session-" \o ToString(i)     \* id restored from the config
UUID(k)       == "uuid-" \o ToString(k)         \* k-th value of randomUUID()
randomUUID    == UUID(budget.uuid + 1)

-----------------------------------------------------------------------------
(* Pure helpers *)

\* Array.prototype.indexOf: 0-based index of the first occurrence, or -1
IndexOf(seq, x) ==
    IF \E k \in 1..Len(seq) : seq[k] = x
    THEN (CHOOSE k \in 1..Len(seq) : seq[k] = x /\ \A m \in 1..(k-1) : seq[m] # x) - 1
    ELSE -1

\* arr[idx] with a 0-based index; out of range gives undefined
ArgAt(seq, idx) ==
    IF idx >= 0 /\ idx < Len(seq) THEN seq[idx + 1] ELSE Undefined

\* String.prototype.includes on word sequences
Includes(buf, pat) ==
    \E k \in 0..(Len(buf) - Len(pat)) :
        \A m \in 1..Len(pat) : buf[k + m] = pat[m]

\* the chunks of a history, in order
DataOf(seq) == [k \in DOMAIN seq |-> seq[k].data]

RECURSIVE Flatten(_)
Flatten(ss) == IF ss = <<>> THEN <<>> ELSE Head(ss) \o Flatten(Tail(ss))

-----------------------------------------------------------------------------
(* pty-helper.mjs *)

resumeIndex(h)    == IndexOf(h.cmdArgs, "--resume")
sessionIdIndex(h) == IndexOf(h.cmdArgs, "--session-id")

originalSessionId(h) ==
    IF resumeIndex(h) >= 0 THEN ArgAt(h.cmdArgs, resumeIndex(h) + 1)
    ELSE IF sessionIdIndex(h) >= 0 THEN ArgAt(h.cmdArgs, sessionIdIndex(h) + 1)
    ELSE Undefined

elapsed(h) == now - h.startTime

\* onData: the chunk is appended to outputBuffer
BuffersData(h) == elapsed(h) < DetectionWindow

\* mutant of SuppressesData: nothing is held back
SuppressesData_never(h) == FALSE

\* onData: the chunk is not written to stdout
SuppressesData(h) ==
    /\ elapsed(h) < DetectionWindow
    /\ ~h.hasRetried
    /\ Truthy(originalSessionId(h))
    /\ resumeIndex(h) >= 0

\* mutant of HasSignature: one of "Session ID" and "not found" is enough
HasSignature_either(buf) ==
    \/ Includes(buf, <<"No", "conversation", "found">>)
    \/ Includes(buf, <<"Session", "ID">>)
    \/ Includes(buf, <<"not", "found">>)

\* onExit: the "session not found" signature
HasSignature(buf) ==
    \/ Includes(buf, <<"No", "conversation", "found">>)
    \/ (Includes(buf, <<"Session", "ID">>) /\ Includes(buf, <<"not", "found">>))

\* mutant of ShouldRetry: hasRetried is not consulted
ShouldRetry_again(h, exitCode) ==
    /\ exitCode # 0
    /\ elapsed(h) < DetectionWindow
    /\ Truthy(originalSessionId(h))
    /\ HasSignature(h.outputBuffer)

\* onExit: the retry condition
ShouldRetry(h, exitCode) ==
    /\ exitCode # 0
    /\ elapsed(h) < DetectionWindow
    /\ ~h.hasRetried
    /\ Truthy(originalSessionId(h))
    /\ HasSignature(h.outputBuffer)

\* mutant of MarkerRecord: the two ids are swapped
MarkerRecord_swapped(h, newSessionId) ==
    [kind         |-> "record",
     oldSessionId |-> newSessionId,
     newSessionId |-> originalSessionId(h),
     timestamp    |-> now]

\* the marker record of a retry
MarkerRecord(h, newSessionId) ==
    [kind         |-> "record",
     oldSessionId |-> originalSessionId(h),
     newSessionId |-> newSessionId,
     timestamp    |-> now]

\* mutant of NewArgs: the restarted child resumes
NewArgs_resume(newSessionId) == <<"--resume", newSessionId>>

\* the argument list of the restarted child
NewArgs(newSessionId) == <<"--session-id", newSessionId>>

\* mutant of SwallowsWriteError: no try/catch around the marker write
SwallowsWriteError_not == FALSE

\* try { mkdirSync; writeFileSync } catch (e) {}: an error of the write
\* does not leave the handler
SwallowsWriteError == TRUE

IdleHelper ==
    [pc |-> "idle", cmdArgs |-> <<>>, ptyArgs |-> <<>>, outputBuffer |-> <<>>,
     startTime |-> 0, hasRetried |-> FALSE, exitCode |-> 0,
     pending |-> NoFile, fs |-> "none", stdout |-> <<>>, torn |-> FALSE]

NoHist == [emitted |-> <<>>, exits |-> <<>>, spawns |-> <<>>, writes |-> <<>>, fs |-> "none"]

\* number of the child that is running (1 = first attempt, 2 = restarted)
Attempt(i) == Len(hist[i].spawns)

\* time since the running child was spawned (ghost, from the spawn history)
SinceSpawn(i) == now - hist[i].spawns[Attempt(i)].at

\* startPty(cmdArgsToUse, currentSessionId)
startPty(h, cmdArgsToUse) == [h EXCEPT !.pc = "running", !.ptyArgs = cmdArgsToUse]

\* an exception that leaves the onExit handler ends the Node process
Crash(h) == [h EXCEPT !.pc = "exited", !.exitCode = 1]

\* the end of the retry branch of onExit: after the try/catch around the
\* marker write, the child is restarted with the new arguments
\* (hs: the history of the run so far)
AfterMarkerWrite(i, h, hs, threw) ==
    IF threw /\ ~SwallowsWriteError
    THEN /\ helper' = [helper EXCEPT ![i] = Crash(h)]
         /\ hist' = [hist EXCEPT ![i] = [hs EXCEPT !.fs = h.fs]]
    ELSE /\ helper' = [helper EXCEPT ![i] = startPty(h, NewArgs(h.pending.newSessionId))]
         /\ hist' = [hist EXCEPT ![i] =
                [hs EXCEPT !.fs = h.fs,
                           !.spawns = Append(@, [args |-> NewArgs(h.pending.newSessionId),
                                                 at |-> now]),
                           !.writes = IF threw THEN @ ELSE Append(@, h.pending)]]

-----------------------------------------------------------------------------
(* __root: the tab list and the Terminal of each open tab *)

\* The tabs keep their place in the model's list when closeActiveTab filters
\* them out of the program's list: closedAt is 0 for a tab of the list and,
\* for a closed tab, the index (from 1) it had in the list when it was closed.
InList(i) == tabs[i].closedAt = 0

\* the index of tab i in the program's list
IndexOfTab(i) == i - Cardinality({k \in 1..(i - 1) : ~InList(k)})

\* the tab at an index of the program's list (0: the list is shorter)
TabAt(index) ==
    IF \E i \in Tabs : InList(i) /\ IndexOfTab(i) = index
    THEN CHOOSE i \in Tabs : InList(i) /\ IndexOfTab(i) = index
    ELSE 0

\* mutant of TerminalArgs: the tab is always started as a new session
TerminalArgs_new(tab) ==
    IF Truthy(tab.sessionId) THEN <<"--session-id", tab.sessionId>> ELSE <<>>

\* args={tab.sessionId ? [tab.isNewSession ? "--session-id" : "--resume", tab.sessionId] : []}
TerminalArgs(tab) ==
    IF Truthy(tab.sessionId)
    THEN <<IF tab.isNewSession THEN "--session-id" ELSE "--resume", tab.sessionId>>
    ELSE <<>>

\* Terminal useEffect: spawn("node", [helperPath, cwd, command, ...args]);
\* the helper initialises its module state and calls startPty(cmdArgs)
SpawnHelper(args) ==
    [IdleHelper EXCEPT !.pc = "running", !.cmdArgs = args, !.ptyArgs = args,
                       !.startTime = now]

-----------------------------------------------------------------------------
(* components/Terminal.tsx: colours and extractStyledText *)

\* RGBA.fromInts(r, g, b), as <<r, g, b>>
COLOR_PALETTE_16 ==
    << <<0, 0, 0>>,     <<187, 0, 0>>,   <<0, 187, 0>>,   <<187, 187, 0>>,
       <<0, 0, 187>>,   <<187, 0, 187>>, <<0, 187, 187>>, <<187, 187, 187>>,
       <<85, 85, 85>>,  <<255, 85, 85>>, <<85, 255, 85>>, <<255, 255, 85>>,
       <<85, 85, 255>>, <<255, 85, 255>>, <<85, 255, 255>>, <<255, 255, 255>> >>

\* a colour that is undefined (the default colour), and the attributes
\* of a chunk that are undefined
NoColor      == <<>>
NoAttributes == 0

CM_DEFAULT == 0
CM_P16     == 16777216
CM_P256    == 33554432
CM_RGB     == 50331648

\* mutant of Gray: the step of the ramp is 11
Gray_step11(color) == (color - 232) * 11 + 8

\* the grayscale ramp of the 256-colour palette
Gray(color) == (color - 232) * 10 + 8

\* COLOR_PALETTE_16[color]
Palette16(color) ==
    IF color >= 0 /\ color < Len(COLOR_PALETTE_16) THEN COLOR_PALETTE_16[color + 1]
    ELSE NoColor

xtermColorToRGBA(color, mode) ==
    IF mode = CM_DEFAULT THEN NoColor
    ELSE IF mode = CM_P16 THEN Palette16(color)
    ELSE IF mode = CM_P256 THEN
        IF color < 16 THEN Palette16(color)
        ELSE IF color < 232 THEN
            LET n == color - 16 IN
            <<(n \div 36) * 51, ((n % 36) \div 6) * 51, (n % 6) * 51>>
        ELSE LET gray == Gray(color) IN <<gray, gray, gray>>
    ELSE IF mode = CM_RGB THEN
        <<(color \div 65536) % 256, (color \div 256) % 256, color % 256>>
    ELSE NoColor

\* a cell of the xterm buffer: getChars, getWidth, the colours with their
\* modes, isBold
Cell(chars, fgColor, fgMode, bold) ==
    [chars |-> chars, width |-> 1, fgColor |-> fgColor, fgMode |-> fgMode,
     bgColor |-> 0, bgMode |-> CM_DEFAULT, bold |-> bold]

\* the cells a screen is drawn from: a letter and an empty cell in the
\* default style, a red letter (16-colour palette), an empty cell in the same
\* red (256-colour palette), a bold letter in the same red (24-bit colour)
CellKinds ==
    { Cell("a", 0, CM_DEFAULT, FALSE),
      Cell("",  0, CM_DEFAULT, FALSE),
      Cell("b", 1, CM_P16,     FALSE),
      Cell("",  1, CM_P256,    FALSE),
      Cell("c", 12255232, CM_RGB, TRUE) }

Whitespace == {" ", "\n"}

\* String.prototype.trimEnd
RECURSIVE trimEnd(_)
trimEnd(text) ==
    IF text # <<>> /\ text[Len(text)] \in Whitespace
    THEN trimEnd(SubSeq(text, 1, Len(text) - 1))
    ELSE text

\* text.trim() === ""
IsBlank(text) == \A k \in DOMAIN text : text[k] \in Whitespace

\* createTextAttributes({bold, ...}): the bitmask, bold is bit 0
Attributes(cell) == IF cell.bold THEN 1 ELSE 0

\* a chunk of the StyledText; attributes: currentAttrs || undefined
Chunk(text, fg, bg, attrs) ==
    [text |-> text, fg |-> fg, bg |-> bg,
     attributes |-> IF attrs = 0 THEN NoAttributes ELSE attrs]

\* { text: "\n" }
NewlineChunk ==
    [text |-> <<"\n">>, fg |-> NoColor, bg |-> NoColor, attributes |-> NoAttributes]

\* mutant of StyleChanged: every cell starts a chunk
StyleChanged_always(fg, bg, attrs, cur) == TRUE

\* fgChanged || bgChanged || attrsChanged, on the resolved colours
StyleChanged(fg, bg, attrs, cur) ==
    fg # cur.fg \/ bg # cur.bg \/ attrs # cur.attrs

\* the loop over the cells x..cols of a line; cur is currentText, currentFg,
\* currentBg, currentAttrs
RECURSIVE ScanLine(_, _, _, _, _)
ScanLine(line, x, cols, cur, chunks) ==
    IF x > cols
    THEN IF cur.text # <<>>
         THEN Append(chunks, Chunk(trimEnd(cur.text), cur.fg, cur.bg, cur.attrs))
         ELSE chunks
    ELSE IF x > Len(line) \/ line[x].width = 0
    THEN ScanLine(line, x + 1, cols, cur, chunks)
    ELSE
        LET cell  == line[x]
            char  == IF cell.chars = "" THEN " " ELSE cell.chars
            fg    == xtermColorToRGBA(cell.fgColor, cell.fgMode)
            bg    == xtermColorToRGBA(cell.bgColor, cell.bgMode)
            attrs == Attributes(cell)
            flush == StyleChanged(fg, bg, attrs, cur) /\ cur.text # <<>>
        IN  ScanLine(line, x + 1, cols,
                     [text  |-> (IF flush THEN <<>> ELSE cur.text) \o <<char>>,
                      fg |-> fg, bg |-> bg, attrs |-> attrs],
                     IF flush
                     THEN Append(chunks, Chunk(cur.text, cur.fg, cur.bg, cur.attrs))
                     ELSE chunks)

\* the loop over the lines y..rows of the buffer
RECURSIVE ScanLines(_, _, _, _, _)
ScanLines(buffer, y, cols, rows, chunks) ==
    IF y > rows THEN chunks
    ELSE IF y > Len(buffer) THEN ScanLines(buffer, y + 1, cols, rows, chunks)
    ELSE
        LET start == [text |-> <<>>, fg |-> NoColor, bg |-> NoColor, attrs |-> 0]
            line  == ScanLine(buffer[y], 1, cols, start, chunks)
        IN  ScanLines(buffer, y + 1, cols, rows,
                      IF y < rows THEN Append(line, NewlineChunk) ELSE line)

\* mutant of PopTrailing: nothing is removed
PopTrailing_none(chunks) == chunks

\* the loop that removes trailing empty lines
RECURSIVE PopTrailing(_)
PopTrailing(chunks) ==
    IF chunks # <<>> /\ (chunks[Len(chunks)].text = <<"\n">>
                          \/ IsBlank(chunks[Len(chunks)].text))
    THEN PopTrailing(SubSeq(chunks, 1, Len(chunks) - 1))
    ELSE chunks

extractStyledText(buffer, cols, rows) ==
    PopTrailing(ScanLines(buffer, 1, cols, rows, <<>>))

\* updateDisplay: setContent(extractStyledText(term, termCols, termRows)).
\* buffer.getLine(y) takes an index into the whole buffer, scrollback
\* included: line 0 is the oldest line.  fresh: the runs are those of the
\* buffer as it is (ghost)
UpdateDisplay ==
    /\ screen # <<>>
    /\ runs' = extractStyledText(screen, Len(screen[1]), viewport.rows)
    /\ viewport' = [viewport EXCEPT !.fresh = TRUE]
    /\ UNCHANGED <<tabs, now, sessionUpdateFile, helper, hist, observed, budget, limits,
                   component, screen, resolved>>

\* an empty line of the buffer
BlankLine(cols) == [x \in 1..cols |-> Cell("", 0, CM_DEFAULT, FALSE)]

\* xterm parses a line of output and a line feed: the cells go to the line of
\* the cursor; a line feed on the last row of the viewport appends a line to
\* the buffer and moves the viewport down (the scrollback of 1000 lines is
\* not exhausted)
PrintLine(line) ==
    LET y == viewport.baseY + viewport.cursorY + 1 IN
    /\ screen # <<>>
    /\ budget.print < limits.print
    /\ budget' = [budget EXCEPT !.print = @ + 1]
    /\ IF viewport.cursorY < viewport.rows - 1
       THEN /\ screen' = [screen EXCEPT ![y] = line]
            /\ viewport' = [viewport EXCEPT !.cursorY = @ + 1, !.fresh = FALSE]
       ELSE /\ screen' = Append([screen EXCEPT ![y] = line], BlankLine(Len(line)))
            /\ viewport' = [viewport EXCEPT !.baseY = @ + 1, !.fresh = FALSE]
    /\ UNCHANGED <<tabs, now, sessionUpdateFile, helper, hist, observed, limits,
                   component, resolved, runs>>

\* the colour modes and the colour values of a cell
ColorModes   == {CM_DEFAULT, CM_P16, CM_P256, CM_RGB}
ColorIndexes == 0..255

NoResolved == [color |-> 0, mode |-> CM_DEFAULT, rgba |-> NoColor, done |-> FALSE]

\* a call of xtermColorToRGBA
ResolveColor ==
    /\ ~resolved.done
    /\ resolved' = [resolved EXCEPT !.rgba = xtermColorToRGBA(resolved.color, resolved.mode),
                                    !.done = TRUE]
    /\ UNCHANGED <<tabs, now, sessionUpdateFile, helper, hist, observed, budget, limits,
                   component, screen, viewport, runs>>

-----------------------------------------------------------------------------
(* components/Terminal.tsx: the component and the closure of its effect *)

NoKey == [name |-> Undefined, ctrl |-> FALSE, meta |-> FALSE, sequence |-> Undefined]

\* the refs of a Terminal that is not mounted, with the argument of
\* the last sendKey call, the number of calls and the number of calls that
\* returned at the guard (ghosts)
NoTerm == [startedRef |-> FALSE, processRef |-> FALSE, xtermRef |-> FALSE,
           lastKey |-> NoKey, keys |-> 0, dropped |-> 0]

\* what one run of the effect owns: the ChildProcess object (killed, the
\* signal on its way, the bytes written to its stdin, the chunks read from
\* its stdout), the XTerm (write buffer, parsed input), the debounce timer
\* (pendingUpdate, timers pending in the runtime) and, as ghosts, the calls
\* of scheduleUpdate since the last render, the bursts of calls, the renders,
\* the calls the last render answered, the exit events, the code of the
\* last exit event, and whether the child outlived the helper
NoProc ==
    [killed |-> FALSE, signal |-> FALSE, signals |-> 0, stdin |-> <<>>, read |-> 0,
     xterm |-> "none", queue |-> <<>>, fed |-> <<>>,
     pendingUpdate |-> FALSE, timers |-> 0, calls |-> 0, bursts |-> 0,
     renders |-> 0, rendered |-> 0, exits |-> 0, status |-> "none",
     orphan |-> FALSE]

\* the process of a helper is running (it has not called process.exit)
Alive(h) == h.pc \in {"running", "writing"}

\* the effect: if (startedRef.current) return; startedRef.current = true;
\* new XTerm; proc = spawn(...); processRef.current = proc
EffectRuns(t) == ~t.startedRef
Effect(t) == [t EXCEPT !.startedRef = TRUE, !.xtermRef = TRUE, !.processRef = TRUE]
NewProc == [NoProc EXCEPT !.xterm = "live"]

\* ChildProcess.kill(): SIGTERM to a running helper; on a process that is
\* gone but whose exit event is still to come the call succeeds without
\* effect; on a closed handle it returns false
Kill(p, h) ==
    IF Alive(h) THEN [p EXCEPT !.killed = TRUE, !.signal = TRUE, !.signals = @ + 1]
    ELSE IF h.pc = "exited" THEN [p EXCEPT !.killed = TRUE]
    ELSE p

\* mutant of CleanupProc: proc.killed is not consulted
CleanupProc_always(t, p, h) ==
    [Kill(p, h) EXCEPT !.xterm = IF t.xtermRef THEN "disposed" ELSE @]

\* the cleanup of the effect, on the closure: if (proc && !proc.killed)
\* proc.kill(); xtermRef.current?.dispose()
CleanupProc(t, p, h) ==
    [(IF ~p.killed THEN Kill(p, h) ELSE p) EXCEPT
        !.xterm = IF t.xtermRef THEN "disposed" ELSE @]

\* the cleanup of the effect, on the refs
CleanupTerm(t) ==
    [t EXCEPT !.processRef = FALSE, !.xtermRef = FALSE, !.startedRef = FALSE]

\* the key events of the dashboard's keyboard hook: a name, the modifiers
\* and the raw sequence (absent, empty or the bytes of the key)
KeyNames == {"c", "d", "return", "backspace", "up", "down", "left", "right",
             "escape", "a"}
RawSequences == {Undefined, <<>>, <<97>>}
KeyEvents == [name : KeyNames, ctrl : BOOLEAN, meta : BOOLEAN, sequence : RawSequences]

\* a JS string is truthy when it is present and not empty
TruthyString(x) == x # Undefined /\ x # <<>>

Nothing == "nothing"

\* mutant of sendKey: the raw sequence is tried first
sendKey_rawFirst(key) ==
    IF TruthyString(key.sequence) /\ ~key.ctrl /\ ~key.meta THEN key.sequence
    ELSE IF key.ctrl /\ key.name = "c" THEN <<3>>
    ELSE IF key.ctrl /\ key.name = "d" THEN <<4>>
    ELSE IF key.name = "return"    THEN <<13>>
    ELSE IF key.name = "backspace" THEN <<127>>
    ELSE IF key.name = "up"        THEN <<27, 91, 65>>
    ELSE IF key.name = "down"      THEN <<27, 91, 66>>
    ELSE IF key.name = "left"      THEN <<27, 91, 68>>
    ELSE IF key.name = "right"     THEN <<27, 91, 67>>
    ELSE IF key.name = "escape"    THEN <<27>>
    ELSE Nothing

\* sendKey below its guard: the bytes of the one stdin.write of the call, or
\* Nothing ("\x03" is <<3>>, "\x1b[A" is <<27, 91, 65>>)
sendKey(key) ==
    IF key.ctrl /\ key.name = "c" THEN <<3>>
    ELSE IF key.ctrl /\ key.name = "d" THEN <<4>>
    ELSE IF key.name = "return"    THEN <<13>>
    ELSE IF key.name = "backspace" THEN <<127>>
    ELSE IF key.name = "up"        THEN <<27, 91, 65>>
    ELSE IF key.name = "down"      THEN <<27, 91, 66>>
    ELSE IF key.name = "left"      THEN <<27, 91, 68>>
    ELSE IF key.name = "right"     THEN <<27, 91, 67>>
    ELSE IF key.name = "escape"    THEN <<27>>
    ELSE IF TruthyString(key.sequence) /\ ~key.ctrl /\ ~key.meta THEN key.sequence
    ELSE Nothing

\* mutant of HasStdin: the guard of sendKey is missing
HasStdin_always(t) == TRUE

\* the guard of sendKey: if (!processRef.current?.stdin) return
HasStdin(t) == t.processRef

\* terminalHandle.sendKey(key) on the Terminal of tab i
SendKey(i, key) ==
    LET t == term[i]
        bytes == sendKey(key)
    IN
    /\ budget.keys < limits.keys
    /\ budget' = [budget EXCEPT !.keys = @ + 1]
    /\ IF HasStdin(t)
       THEN /\ term' = [term EXCEPT ![i].lastKey = key, ![i].keys = @ + 1]
            /\ proc' = IF bytes = Nothing THEN proc
                       ELSE [proc EXCEPT ![i].stdin = Append(@, bytes)]
       ELSE /\ term' = [term EXCEPT ![i].lastKey = key, ![i].keys = @ + 1,
                                    ![i].dropped = @ + 1]
            /\ UNCHANGED proc
    /\ UNCHANGED <<tabs, now, sessionUpdateFile, helper, hist, observed, limits, display>>

\* mutant of scheduleUpdate: the pending timer is not cleared
scheduleUpdate_noClear(p) ==
    [p EXCEPT !.timers = @ + 1, !.pendingUpdate = TRUE, !.calls = @ + 1,
              !.bursts = IF p.timers = 0 THEN @ + 1 ELSE @]

\* scheduleUpdate: if (pendingUpdate) clearTimeout(pendingUpdate);
\* pendingUpdate = setTimeout(..., 16).  A call that finds no timer in the
\* runtime starts a burst (ghost)
scheduleUpdate(p) ==
    [p EXCEPT !.timers = (IF p.pendingUpdate THEN @ - 1 ELSE @) + 1,
              !.pendingUpdate = TRUE, !.calls = @ + 1,
              !.bursts = IF p.timers = 0 THEN @ + 1 ELSE @]

\* mutant of XtermWrite: the write buffer is a stack
XtermWrite_stack(queue, data) == <<data>> \o queue

\* term.write(data, callback): xterm appends to its write buffer and parses
\* the buffer in order, calling the callback of a chunk after its parse
XtermWrite(queue, data) == Append(queue, data)

\* proc.stdout.on("data"): the pipe delivers the bytes of the next k writes
\* of the helper, in order, as one chunk.  A disposed XTerm takes no input.
TermOnData(i, k) ==
    LET p    == proc[i]
        out  == helper[i].stdout
        data == Flatten(DataOf(SubSeq(out, p.read + 1, p.read + k)))
    IN
    /\ p.xterm # "none"
    /\ k >= 1 /\ p.read + k <= Len(out)
    /\ proc' = [proc EXCEPT ![i].read = @ + k,
                            ![i].queue = IF p.xterm = "live" THEN XtermWrite(@, data)
                                         ELSE @]
    /\ UNCHANGED <<tabs, now, sessionUpdateFile, helper, hist, observed, budget, limits,
                   term, display>>

\* xterm parses the head of its write buffer into the screen buffer and
\* calls the callback, scheduleUpdate
XtermParse(i) ==
    LET p == proc[i] IN
    /\ p.xterm = "live"
    /\ p.queue # <<>>
    /\ proc' = [proc EXCEPT ![i] =
                   scheduleUpdate([p EXCEPT !.queue = Tail(@),
                                            !.fed = Append(@, Head(p.queue))])]
    /\ UNCHANGED <<tabs, now, sessionUpdateFile, helper, hist, observed, budget, limits,
                   term, display>>

\* the debounce timer fires: pendingUpdate = null; updateDisplay()
TimerFire(i) ==
    LET p == proc[i] IN
    /\ p.timers > 0
    /\ proc' = [proc EXCEPT ![i].timers = @ - 1, ![i].pendingUpdate = FALSE,
                            ![i].renders = @ + 1, ![i].rendered = p.calls,
                            ![i].calls = 0]
    /\ UNCHANGED <<tabs, now, sessionUpdateFile, helper, hist, observed, budget, limits,
                   term, display>>

\* openClaudeCode on tab i, and the mount of the tab's Terminal
OpenClaudeCode(i) ==
    LET currentTab   == tabs[i]
        isNewSession == ~Truthy(currentTab.sessionId)
        sessionId    == IF Truthy(currentTab.sessionId) THEN currentTab.sessionId
                        ELSE randomUUID
        tab          == [currentTab EXCEPT !.isTerminalOpen = TRUE,
                                           !.sessionId = sessionId,
                                           !.isNewSession = isNewSession]
    IN  /\ InList(i)
        /\ ~currentTab.isTerminalOpen
        /\ helper[i].pc = "idle"
        /\ EffectRuns(term[i])
        /\ budget.open < limits.open
        /\ isNewSession => budget.uuid < limits.uuid
        /\ tabs' = [tabs EXCEPT ![i] = tab]
        /\ helper' = [helper EXCEPT ![i] = SpawnHelper(TerminalArgs(tab))]
        /\ hist' = [hist EXCEPT ![i] =
                       [NoHist EXCEPT !.spawns = <<[args |-> TerminalArgs(tab), at |-> now]>>]]
        /\ budget' = [budget EXCEPT !.open = @ + 1,
                                    !.uuid = IF isNewSession THEN @ + 1 ELSE @]
        /\ term' = [term EXCEPT ![i] = Effect(@)]
        /\ proc' = [proc EXCEPT ![i] = NewProc]
        /\ UNCHANGED <<now, sessionUpdateFile, observed, limits, display>>

\* ptyProcess.onData
PtyOnData(i, data) ==
    LET h == helper[i] IN
    /\ h.pc = "running"
    /\ budget.emit < limits.emit
    /\ helper' = [helper EXCEPT
           ![i].outputBuffer = IF BuffersData(h) THEN @ \o data ELSE @,
           ![i].stdout = IF SuppressesData(h) THEN @
                         ELSE Append(@, [attempt |-> Attempt(i), data |-> data])]
    /\ hist' = [hist EXCEPT ![i].emitted =
                   Append(@, [attempt |-> Attempt(i), data |-> data,
                              inWindow |-> SinceSpawn(i) < DetectionWindow])]
    /\ budget' = [budget EXCEPT !.emit = @ + 1]
    /\ UNCHANGED <<tabs, now, sessionUpdateFile, observed, limits, component, display>>

\* ptyProcess.onExit.  When the retry writes the marker, writeFileSync opens
\* the file with O_TRUNC and writes the content with a second system call:
\* other processes see the file between the two, so the handler ends in
\* WriteFileSyncFinish.
PtyOnExit(i, exitCode, fs) ==
    LET h     == helper[i]
        retry == ShouldRetry(h, exitCode)
        h1    == [h EXCEPT !.hasRetried = TRUE, !.startTime = now, !.outputBuffer = <<>>,
                           !.pending = MarkerRecord(h, randomUUID), !.fs = fs]
        exit  == [exitCode |-> exitCode, sinceSpawn |-> SinceSpawn(i),
                  attempt |-> Attempt(i), retried |-> retry]
    IN
    /\ h.pc = "running"
    /\ IF retry
       THEN /\ budget.uuid < limits.uuid
            /\ budget' = [budget EXCEPT !.uuid = @ + 1]
            /\ IF fs = "mkdirThrows"
               THEN /\ AfterMarkerWrite(i, h1, [hist[i] EXCEPT !.exits = Append(@, exit)], TRUE)
                    /\ UNCHANGED sessionUpdateFile
               ELSE /\ helper' = [helper EXCEPT ![i] = [h1 EXCEPT !.pc = "writing"]]
                    /\ hist' = [hist EXCEPT ![i].exits = Append(@, exit)]
                    /\ sessionUpdateFile' = EmptyFile
       ELSE /\ fs = "ok"
            /\ helper' = [helper EXCEPT ![i] = [h EXCEPT !.pc = "exited", !.exitCode = exitCode]]
            /\ hist' = [hist EXCEPT ![i].exits = Append(@, exit)]
            /\ UNCHANGED <<sessionUpdateFile, budget>>
    /\ UNCHANGED <<tabs, now, observed, limits, component, display>>

\* the second half of writeFileSync and the rest of the retry branch
WriteFileSyncFinish(i) ==
    LET h == helper[i] IN
    /\ h.pc = "writing"
    /\ sessionUpdateFile' = IF h.fs = "ok" THEN h.pending ELSE sessionUpdateFile
    /\ AfterMarkerWrite(i, h, hist[i], h.fs # "ok")
    /\ UNCHANGED <<tabs, now, observed, budget, limits, component, display>>

-----------------------------------------------------------------------------
(* __root: the Terminal onExit callback of tab i *)

\* JSON.parse(readFileSync(sessionUpdatePath)) succeeds and gives an object
Parses(file) == file.kind = "record"

\* mutant of MarkerAccepted: the age of the marker is not checked
MarkerAccepted_anyAge(update, tab) == update.oldSessionId = tab.sessionId

\* update.oldSessionId === tab.sessionId && Date.now() - update.timestamp < 30000
MarkerAccepted(update, tab) ==
    /\ update.oldSessionId = tab.sessionId
    /\ now - update.timestamp < RecencyWindow

\* what the callback finds in the marker file (ghost)
Classify(file, tab) ==
    IF file = NoFile THEN "missing"
    ELSE IF ~Parses(file) THEN "unparseable"
    ELSE IF MarkerAccepted(file, tab) THEN "consumed"
    ELSE IF file.oldSessionId # tab.sessionId THEN "foreign"
    ELSE "stale"

\* mutant of ExitStatus: the helper always exits with 0
ExitStatus_zero(h) == 0

\* the code Node passes to the "exit" listener of the ChildProcess: the
\* argument of the helper's process.exit
ExitStatus(h) == h.exitCode

\* proc.on("exit") of the effect that spawned process s, in the Terminal of
\* tab i: processRef.current = null; onExitRef.current?.() (the code is not
\* passed on).  The callback closes the tab; a mounted Terminal is unmounted
\* and the cleanup of its running effect is called.
ProcExit(s, i) ==
    LET tab    == tabs[i]
        file   == sessionUpdateFile
        accept == file # NoFile /\ Parses(file) /\ MarkerAccepted(file, tab)
        t      == [term[i] EXCEPT !.processRef = FALSE]
        exited == [proc EXCEPT ![s].exits = @ + 1, ![s].status = ExitStatus(helper[s])]
    IN
    /\ InList(i)
    /\ helper[s].pc = "exited"
    /\ helper' = [helper EXCEPT ![s].pc = "idle"]
    /\ term' = [term EXCEPT ![i] = IF t.startedRef THEN CleanupTerm(t) ELSE t]
    /\ proc' = IF t.startedRef
               THEN [exited EXCEPT ![i] = CleanupProc(t, @, helper'[i])]
               ELSE exited
    /\ observed' = [observed EXCEPT ![i] = Classify(file, tab)]
    /\ IF accept
       THEN /\ tabs' = [tabs EXCEPT ![i] = [tab EXCEPT !.isTerminalOpen = FALSE,
                                                       !.isNewSession = FALSE,
                                                       !.sessionId = file.newSessionId]]
            /\ sessionUpdateFile' = NoFile
       ELSE /\ tabs' = [tabs EXCEPT ![i] = [tab EXCEPT !.isTerminalOpen = FALSE,
                                                       !.isNewSession = FALSE]]
            /\ UNCHANGED sessionUpdateFile
    /\ UNCHANGED <<now, hist, budget, limits, display>>

\* the exit event of the process of the running effect
ProcOnExit(i) == ProcExit(i, i)

\* the exit event of the process of the effect that was cleaned up
OldProcOnExit(i) == ProcExit(OldSlot(i), i)

\* switchToWorktree on a tab whose Terminal is open: cwd changes, React
\* calls the cleanup of the effect and runs the effect again.  The process
\* of the old effect lives on as OldSlot(i).
SwitchToWorktree(i) ==
    LET o == OldSlot(i)
        t == CleanupTerm(term[i])
    IN
    /\ tabs[i].isTerminalOpen
    /\ term[i].startedRef
    /\ o \in Procs /\ helper[o].pc = "idle"
    /\ budget.switch < limits.switch
    /\ budget' = [budget EXCEPT !.switch = @ + 1]
    /\ EffectRuns(t)
    /\ term' = [term EXCEPT ![i] = Effect(t)]
    /\ proc' = [proc EXCEPT ![o] = CleanupProc(term[i], proc[i], helper[i]),
                            ![i] = NewProc]
    /\ helper' = [helper EXCEPT ![o] = helper[i],
                                ![i] = SpawnHelper(TerminalArgs(tabs[i]))]
    /\ hist' = [hist EXCEPT ![o] = hist[i],
                            ![i] = [NoHist EXCEPT !.spawns =
                                       <<[args |-> TerminalArgs(tabs[i]), at |-> now]>>]]
    /\ UNCHANGED <<tabs, now, sessionUpdateFile, observed, limits, display>>

\* the auto-start of switchToTab and of the launch: a closed tab with a
\* sessionId is opened, setTabs(... {...tab, isTerminalOpen: true})
AutoStart(i) ==
    LET tab == [tabs[i] EXCEPT !.isTerminalOpen = TRUE] IN
    /\ InList(i)
    /\ Truthy(tabs[i].sessionId) /\ ~tabs[i].isTerminalOpen
    /\ helper[i].pc = "idle"
    /\ EffectRuns(term[i])
    /\ budget.open < limits.open
    /\ budget' = [budget EXCEPT !.open = @ + 1]
    /\ tabs' = [tabs EXCEPT ![i] = tab]
    /\ helper' = [helper EXCEPT ![i] = SpawnHelper(TerminalArgs(tab))]
    /\ hist' = [hist EXCEPT ![i] =
                   [NoHist EXCEPT !.spawns = <<[args |-> TerminalArgs(tab), at |-> now]>>]]
    /\ term' = [term EXCEPT ![i] = Effect(@)]
    /\ proc' = [proc EXCEPT ![i] = NewProc]
    /\ UNCHANGED <<now, sessionUpdateFile, observed, limits, display>>

\* the dashboard is ended and started again: the effect on [tabs,
\* activeTabIndex] has stored the sessionId of every tab with updateConfig,
\* and the initial state of the new dashboard takes it from loadConfig; the
\* tabs are closed and isNewSession is not set.  The processes of the old
\* dashboard are not followed.
Restart ==
    /\ budget.restart < limits.restart
    /\ budget' = [budget EXCEPT !.restart = @ + 1]
    /\ tabs' = [i \in Tabs |-> [tabs[i] EXCEPT !.isTerminalOpen = FALSE,
                                               !.isNewSession = FALSE]]
    /\ helper' = [s \in Procs |-> IdleHelper]
    /\ hist' = [s \in Procs |-> NoHist]
    /\ term' = [i \in Tabs |-> NoTerm]
    /\ proc' = [s \in Procs |-> NoProc]
    /\ UNCHANGED <<now, sessionUpdateFile, observed, limits, display>>

\* closeActiveTab with tab i active: the tab leaves the list, the tabs after
\* it move up by one index.  The Terminal of the tab is unmounted and the
\* cleanup of its effect runs; its exit listener stays on the process, with
\* the onExit of the last render in onExitRef.
CloseActiveTab(i) ==
    /\ InList(i)
    /\ budget.close < limits.close
    /\ budget' = [budget EXCEPT !.close = @ + 1]
    /\ tabs' = [tabs EXCEPT ![i].closedAt = IndexOfTab(i)]
    /\ term' = [term EXCEPT ![i] = IF @.startedRef THEN CleanupTerm(@) ELSE @]
    /\ proc' = [proc EXCEPT ![i] = IF term[i].startedRef
                                   THEN CleanupProc(term[i], @, helper[i]) ELSE @]
    /\ UNCHANGED <<now, sessionUpdateFile, helper, hist, observed, limits, display>>

\* the exit event of the process of a closed tab s: processRef.current =
\* null; onExitRef.current?.() is the callback of the last render of the
\* Terminal, with the tab and the index of that render.  updateTab(index, ..)
\* maps over the list as it is now: it changes the tab that stands at the
\* index, if there is one, and the Terminal of that tab is unmounted.
LateProcExit(s) ==
    LET tab    == tabs[s]
        file   == sessionUpdateFile
        accept == file # NoFile /\ Parses(file) /\ MarkerAccepted(file, tab)
        j      == TabAt(tab.closedAt)
        t      == IF j = 0 THEN NoTerm ELSE term[j]
        exited == [proc EXCEPT ![s].exits = @ + 1, ![s].status = ExitStatus(helper[s])]
        hit    == IF accept
                  THEN [tabs[j] EXCEPT !.isTerminalOpen = FALSE, !.isNewSession = FALSE,
                                       !.sessionId = file.newSessionId]
                  ELSE [tabs[j] EXCEPT !.isTerminalOpen = FALSE, !.isNewSession = FALSE]
    IN
    /\ s \in Tabs /\ ~InList(s)
    /\ helper[s].pc = "exited"
    /\ helper' = [helper EXCEPT ![s].pc = "idle"]
    /\ observed' = [observed EXCEPT ![s] = Classify(file, tab)]
    /\ sessionUpdateFile' = IF accept THEN NoFile ELSE sessionUpdateFile
    /\ tabs' = IF j = 0 THEN tabs ELSE [tabs EXCEPT ![j] = hit]
    /\ term' = [k \in Tabs |->
                  IF k = s THEN [term[s] EXCEPT !.processRef = FALSE]
                  ELSE IF k = j /\ t.startedRef THEN CleanupTerm(t)
                  ELSE term[k]]
    /\ proc' = IF j # 0 /\ t.startedRef
               THEN [exited EXCEPT ![j] = CleanupProc(t, @, helper[j])]
               ELSE exited
    /\ UNCHANGED <<now, hist, budget, limits, display>>

\* mutant of OnSigterm: the handler does not end the process
OnSigterm_noExit(h) == [h EXCEPT !.torn = TRUE]

\* process.on('SIGTERM'): if (ptyProcess) ptyProcess.kill(); process.exit(0)
OnSigterm(h) == [h EXCEPT !.torn = TRUE, !.pc = "exited", !.exitCode = 0]

\* the helper handles the SIGTERM of proc.kill(), between two of its event
\* handlers.  ptyProcess.kill() sends SIGHUP once: a child that ignores it
\* is still running when the helper is gone.
HelperSigterm(s, ignored) ==
    /\ proc[s].signal
    /\ helper[s].pc = "running"
    /\ helper' = [helper EXCEPT ![s] = OnSigterm(@)]
    /\ proc' = [proc EXCEPT ![s].signal = FALSE, ![s].orphan = ignored]
    /\ UNCHANGED <<tabs, now, sessionUpdateFile, hist, observed, budget, limits,
                   term, display>>

\* time passes; a marker write in progress takes no measurable time
Tick(d) ==
    /\ budget.tick < limits.tick
    /\ \A s \in Procs : helper[s].pc # "writing"
    /\ now' = now + d
    /\ budget' = [budget EXCEPT !.tick = @ + 1]
    /\ UNCHANGED <<tabs, sessionUpdateFile, helper, hist, observed, limits, component, display>>

-----------------------------------------------------------------------------

\* the state after the dashboard has started with n tabs restored from the
\* config: every tab closed, with or without a session id
Dashboard(n, lim) ==
    /\ tabs \in [1..n -> [sessionId : {Undefined} \cup {Restored(i) : i \in 1..n},
                          isNewSession : {FALSE}, isTerminalOpen : {FALSE},
                          closedAt : {0}]]
    /\ \A i \in 1..n : tabs[i].sessionId \in {Undefined, Restored(i)}
    /\ now = 0
    /\ sessionUpdateFile = NoFile
    /\ helper = [s \in 1..(IF lim.switch > 0 THEN 2 * n ELSE n) |-> IdleHelper]
    /\ hist = [s \in DOMAIN helper |-> NoHist]
    /\ observed = [i \in 1..n |-> "none"]
    /\ budget = [open |-> 0, emit |-> 0, tick |-> 0, uuid |-> 0, keys |-> 0, switch |-> 0,
                 print |-> 0, restart |-> 0, close |-> 0]
    /\ limits = lim
    /\ term = [i \in 1..n |-> NoTerm]
    /\ proc = [s \in DOMAIN helper |-> NoProc]

NoViewport == [rows |-> 0, baseY |-> 0, cursorY |-> 0, fresh |-> FALSE]

\* no screen is looked at
Start(n, lim) ==
    /\ Dashboard(n, lim)
    /\ screen = <<>>
    /\ viewport = NoViewport
    /\ resolved = NoResolved
    /\ runs = <<>>

Init ==
    Start(1, [open |-> MaxOpens, emit |-> MaxEmit, tick |-> MaxTicks, uuid |-> MaxUUID,
              keys |-> 0, switch |-> 0])

InitTabs ==
    Start(2, [open |-> 2, emit |-> TabsEmit, tick |-> TabsTicks, uuid |-> TabsUUID,
              keys |-> 0, switch |-> 0])

Next ==
    \/ \E i \in Tabs : OpenClaudeCode(i)
    \/ \E i \in Tabs, data \in Chunks : PtyOnData(i, data)
    \/ \E i \in Tabs, exitCode \in ExitCodes, fs \in FsOutcomes : PtyOnExit(i, exitCode, fs)
    \/ \E i \in Tabs : WriteFileSyncFinish(i)
    \/ \E i \in Tabs : ProcOnExit(i)
    \/ \E d \in {TickStep, RecencyWindow} : Tick(d)

Spec == Init /\ [][Next]_vars

SpecTabs == InitTabs /\ [][Next]_vars

\* two tabs restored with a session id: both sessions can retry, no time
\* passes
InitRace ==
    /\ Start(2, [open |-> 2, emit |-> RaceEmit, tick |-> 0, uuid |-> 2, keys |-> 0,
                 switch |-> 0])
    /\ \A i \in Tabs : Truthy(tabs[i].sessionId)

NextRace ==
    \/ \E i \in Tabs : OpenClaudeCode(i)
    \/ \E i \in Tabs, data \in Chunks : PtyOnData(i, data)
    \/ \E i \in Tabs, exitCode \in ExitCodes, fs \in FsOutcomes : PtyOnExit(i, exitCode, fs)
    \/ \E i \in Tabs : WriteFileSyncFinish(i)
    \/ \E i \in Tabs : ProcOnExit(i)

SpecRace == InitRace /\ [][NextRace]_vars

\* one tab that is opened again and again, also after a restart of the
\* dashboard
InitOpen ==
    Start(1, [open |-> MaxReopens, emit |-> 1, tick |-> 0, uuid |-> 2, keys |-> 0,
              switch |-> 0, restart |-> MaxRestarts])

NextOpen ==
    \/ \E i \in Tabs : OpenClaudeCode(i)
    \/ \E i \in Tabs : AutoStart(i)
    \/ \E i \in Tabs, data \in Chunks : PtyOnData(i, data)
    \/ \E i \in Tabs, exitCode \in ExitCodes, fs \in FsOutcomes : PtyOnExit(i, exitCode, fs)
    \/ \E i \in Tabs : WriteFileSyncFinish(i)
    \/ \E i \in Tabs : ProcOnExit(i)
    \/ Restart

SpecOpen == InitOpen /\ [][NextOpen]_vars

\* two tabs that are opened and closed with closeActiveTab
InitClose ==
    Start(2, [open |-> 2, emit |-> 0, tick |-> 0, uuid |-> 2, keys |-> 0,
              switch |-> 0, close |-> MaxCloses])

NextClose ==
    \/ \E i \in Tabs : OpenClaudeCode(i)
    \/ \E i \in Tabs : CloseActiveTab(i)
    \/ \E s \in Procs, ignored \in BOOLEAN : HelperSigterm(s, ignored)
    \/ \E s \in Procs, exitCode \in ExitCodes : PtyOnExit(s, exitCode, "ok")
    \/ \E i \in Tabs : ProcOnExit(i)
    \/ \E s \in Tabs : LateProcExit(s)

SpecClose == InitClose /\ [][NextClose]_vars

\* the keyboard of one Terminal: a session is opened, typed into and exits
InitKeys ==
    Start(1, [open |-> 1, emit |-> 0, tick |-> 0, uuid |-> 1, keys |-> MaxKeys,
              switch |-> 0])

NextKeys ==
    \/ \E i \in Tabs : OpenClaudeCode(i)
    \/ \E i \in Tabs, key \in KeyEvents : SendKey(i, key)
    \/ \E i \in Tabs, exitCode \in ExitCodes : PtyOnExit(i, exitCode, "ok")
    \/ \E i \in Tabs : ProcOnExit(i)

SpecKeys == InitKeys /\ [][NextKeys]_vars

\* the output path of one Terminal: helper stdout, pipe, xterm, debounce
InitTerm ==
    Start(1, [open |-> 1, emit |-> MaxFeed, tick |-> 1, uuid |-> 2, keys |-> 0,
              switch |-> 0])

NextTerm ==
    \/ \E i \in Tabs : OpenClaudeCode(i)
    \/ \E i \in Tabs, data \in Chunks : PtyOnData(i, data)
    \/ \E i \in Tabs, exitCode \in ExitCodes, fs \in FsOutcomes : PtyOnExit(i, exitCode, fs)
    \/ \E i \in Tabs : WriteFileSyncFinish(i)
    \/ \E i \in Tabs : ProcOnExit(i)
    \/ Tick(DetectionWindow)
    \/ \E i \in Tabs, k \in 1..MaxFeed : TermOnData(i, k)
    \/ \E i \in Tabs : XtermParse(i)
    \/ \E i \in Tabs : TimerFire(i)

SpecTerm == InitTerm /\ [][NextTerm]_vars

\* the teardown of one Terminal: its effect is cleaned up and run again
\* while the helper is running
InitStop ==
    Start(1, [open |-> 1, emit |-> MaxStopEmit, tick |-> 0, uuid |-> 2, keys |-> 0,
              switch |-> 1])

NextStop ==
    \/ \E i \in Tabs : OpenClaudeCode(i)
    \/ \E i \in Tabs : SwitchToWorktree(i)
    \/ \E s \in Procs, data \in Chunks : PtyOnData(s, data)
    \/ \E s \in Procs, exitCode \in ExitCodes, fs \in FsOutcomes : PtyOnExit(s, exitCode, fs)
    \/ \E s \in Procs : WriteFileSyncFinish(s)
    \/ \E s \in Procs, ignored \in BOOLEAN : HelperSigterm(s, ignored)
    \/ \E i \in Tabs : ProcOnExit(i)
    \/ \E i \in Tabs : OldProcOnExit(i)

SpecStop == InitStop /\ [][NextStop]_vars

\* the compositor on every screen of two lines of ScreenCols cells
InitExtract ==
    /\ Dashboard(1, [open |-> 0, emit |-> 0, tick |-> 0, uuid |-> 0, keys |-> 0,
                     switch |-> 0])
    /\ tabs[1].sessionId = Undefined
    /\ screen \in [1..2 -> [1..ScreenCols -> CellKinds]]
    /\ viewport = [NoViewport EXCEPT !.rows = 2]
    /\ resolved = NoResolved
    /\ runs = <<>>

NextExtract == UpdateDisplay

SpecExtract == InitExtract /\ [][NextExtract]_vars

\* the colour resolver on every colour value of every mode
InitColor ==
    /\ Dashboard(1, [open |-> 0, emit |-> 0, tick |-> 0, uuid |-> 0, keys |-> 0,
                     switch |-> 0])
    /\ tabs[1].sessionId = Undefined
    /\ screen = <<>>
    /\ viewport = NoViewport
    /\ resolved \in [color : ColorIndexes, mode : ColorModes, rgba : {NoColor},
                      done : {FALSE}]
    /\ runs = <<>>

NextColor == ResolveColor

SpecColor == InitColor /\ [][NextColor]_vars

\* a new XTerm of two rows of one cell; the child prints lines of one letter
InitScroll ==
    /\ Dashboard(1, [open |-> 0, emit |-> 0, tick |-> 0, uuid |-> 0, keys |-> 0,
                     switch |-> 0, print |-> MaxPrints])
    /\ tabs[1].sessionId = Undefined
    /\ screen = [y \in 1..2 |-> BlankLine(1)]
    /\ viewport = [NoViewport EXCEPT !.rows = 2]
    /\ resolved = NoResolved
    /\ runs = <<>>

NextScroll ==
    \/ \E cell \in CellKinds : cell.chars # "" /\ PrintLine(<<cell>>)
    \/ UpdateDisplay

SpecScroll == InitScroll /\ [][NextScroll]_vars

-----------------------------------------------------------------------------
(* Properties of the retry protocol (pty-helper.mjs) *)

\* the helper run of tab i was started with <<flag, id>>
StartedWith(i, flag) ==
    /\ Attempt(i) >= 1
    /\ Len(hist[i].spawns[1].args) = 2
    /\ hist[i].spawns[1].args[1] = flag

StartedResume(i) == StartedWith(i, "--resume")
StartedNew(i)    == StartedWith(i, "--session-id")
StartedId(i)     == hist[i].spawns[1].args[2]

\* the first attempt of the run ended in a retry
Retried(i) == hist[i].exits # <<>> /\ hist[i].exits[1].retried

\* the run is over: process.exit was called
Terminated(i) == helper[i].pc \in {"exited", "idle"} /\ hist[i].exits # <<>>

\* what child number a emitted inside its detection window
BufferedBy(i, a) ==
    Flatten(DataOf(SelectSeq(hist[i].emitted, LAMBDA e : e.attempt = a /\ e.inWindow)))

\* C1: in one helper run the child is restarted at most once: only the first
\* exit can be answered by a restart, a second exit ends the run with its own
\* exit status, whatever the second child printed.
C1_AtMostOneRestart ==
    \A i \in Tabs :
        /\ Len(hist[i].spawns) <= 2
        /\ Len(hist[i].exits) <= 2
        /\ \A k \in DOMAIN hist[i].exits : hist[i].exits[k].retried => k = 1
        /\ Len(hist[i].exits) = 2 =>
              /\ Len(hist[i].spawns) = 2
              /\ Terminated(i)
              /\ helper[i].exitCode = hist[i].exits[2].exitCode

\* a child that fails twice inside the window with the signature in its output
C1_Witness ==
    \E i \in Tabs :
        /\ Len(hist[i].exits) = 2
        /\ hist[i].exits[2].exitCode # 0
        /\ hist[i].exits[2].sinceSpawn < DetectionWindow
        /\ Includes(BufferedBy(i, 2), <<"No", "conversation", "found">>)
        /\ helper[i].pc = "exited"

\* C2: in a resume run whose first attempt was retried, everything written to
\* stdout was emitted by the restarted child.
C2_NoOutputOfFailedAttempt ==
    \A i \in Tabs :
        StartedResume(i) /\ Retried(i) =>
            \A k \in DOMAIN helper[i].stdout : helper[i].stdout[k].attempt = 2

C2_Witness ==
    \E i \in Tabs :
        /\ StartedResume(i) /\ Retried(i)
        /\ \E k \in DOMAIN hist[i].emitted : hist[i].emitted[k].attempt = 1
        /\ helper[i].stdout # <<>>

C4_Signature(buf) ==
    \/ Includes(buf, <<"No", "conversation", "found">>)
    \/ (Includes(buf, <<"Session", "ID">>) /\ Includes(buf, <<"not", "found">>))

\* C4: in a resume run, an exit of the child is answered by a restart exactly
\* when the exit status is non-zero, the exit is inside the detection window,
\* the output of the window has the signature and no retry happened before;
\* every other exit ends the run with the exit status of the child.
C4_RestartIff ==
    \A i \in Tabs :
        StartedResume(i) =>
            \A k \in DOMAIN hist[i].exits :
                LET e == hist[i].exits[k] IN
                /\ e.retried <=>
                      /\ e.exitCode # 0
                      /\ e.sinceSpawn < DetectionWindow
                      /\ C4_Signature(BufferedBy(i, e.attempt))
                      /\ \A m \in 1..(k-1) : ~hist[i].exits[m].retried
                /\ e.retried => (helper[i].pc = "writing" \/ Len(hist[i].spawns) > k)
                /\ ~e.retried => /\ k = Len(hist[i].exits)
                                 /\ Terminated(i)
                                 /\ helper[i].exitCode = e.exitCode
                                 /\ Len(hist[i].spawns) = k

C4_Witness ==
    \E i \in Tabs :
        /\ StartedResume(i)
        /\ Len(hist[i].exits) = 1
        /\ hist[i].exits[1].retried
        /\ helper[i].pc = "running"
        /\ ~Includes(BufferedBy(i, 1), <<"No", "conversation", "found">>)

\* C5 (as claimed): a run started with --session-id is never restarted and
\* never writes the marker.
C5_NewSessionNeverRetried ==
    \A i \in Tabs :
        StartedNew(i) =>
            /\ Len(hist[i].spawns) = 1
            /\ helper[i].pc # "writing"
            /\ hist[i].writes = <<>>

\* the restart of the child of tab i happens in this step
Restarts(i) == Len(hist[i].spawns) = 1 /\ Len(hist'[i].spawns) = 2

\* C6: the restarted child gets <<"--session-id", id>> with a fresh id that is
\* not the original one, never --resume; at the restart the start time of the
\* window is the current time and the output buffer is empty.
C6_RestartArguments ==
    [][ \A i \in Tabs :
          Restarts(i) =>
              LET a == hist'[i].spawns[2].args IN
              /\ Len(a) = 2
              /\ a[1] = "--session-id"
              /\ IndexOf(a, "--resume") = -1
              /\ a[2] # StartedId(i)
              /\ \A j \in Tabs : a[2] # tabs[j].sessionId
              /\ helper'[i].ptyArgs = a
              /\ helper'[i].startTime = now'
              /\ helper'[i].outputBuffer = <<>> ]_vars

C6_Witness ==
    \E i \in Tabs :
        /\ Attempt(i) = 2
        /\ helper[i].ptyArgs = hist[i].spawns[2].args
        /\ helper[i].pc = "running"

\* C7 (as claimed): every retry has written one marker record when the child
\* is restarted, with the original id as oldSessionId and the id of the
\* restarted child as newSessionId; without retry no marker is written.
C7_EveryRetryWritesMarker ==
    \A i \in Tabs :
        /\ hist[i].writes # <<>> => Retried(i)
        /\ Attempt(i) = 2 =>
              /\ Len(hist[i].writes) = 1
              /\ hist[i].writes[1].oldSessionId = StartedId(i)
              /\ hist[i].writes[1].newSessionId = hist[i].spawns[2].args[2]

\* C7 (amended): the same for every retry whose marker write does not throw;
\* a retry whose write throws restarts the child without a marker record.
C7_RetryWritesMarkerUnlessThrown ==
    \A i \in Tabs :
        /\ hist[i].writes # <<>> => Retried(i)
        /\ Len(hist[i].writes) <= 1
        /\ Attempt(i) = 2 =>
              IF hist[i].fs = "ok"
              THEN /\ Len(hist[i].writes) = 1
                   /\ hist[i].writes[1].kind = "record"
                   /\ hist[i].writes[1].oldSessionId = StartedId(i)
                   /\ hist[i].writes[1].newSessionId = hist[i].spawns[2].args[2]
              ELSE hist[i].writes = <<>>

C7_Witness ==
    \E i \in Tabs :
        /\ Attempt(i) = 2
        /\ Len(hist[i].writes) = 1
        /\ sessionUpdateFile = hist[i].writes[1]

\* C8: when the marker write throws, the retry goes on as when it succeeds:
\* hasRetried is set and the child is restarted with a fresh session id.
C8_WriteFailureSwallowed ==
    \A i \in Tabs :
        hist[i].fs \in {"mkdirThrows", "writeThrows"} =>
            /\ helper[i].hasRetried
            /\ Attempt(i) = 2
            /\ hist[i].spawns[2].args[1] = "--session-id"
            /\ hist[i].spawns[2].args[2] # StartedId(i)
            /\ hist[i].spawns[2].args[2] \in {UUID(k) : k \in 1..budget.uuid}

C8_Witness ==
    \E i \in Tabs :
        /\ hist[i].fs = "writeThrows"
        /\ helper[i].pc = "running"
        /\ Attempt(i) = 2

-----------------------------------------------------------------------------
(* Properties of the marker file and its consumer *)

\* C9 (as claimed): no consumer reads a partially written marker: while a
\* supervisor writes the marker, the onExit of another session finds either
\* no file or a complete record.
C9_AtomicMarker ==
    \A i, j \in Tabs :
        helper[j].pc = "writing" /\ helper[j].fs = "ok" => observed[i] # "unparseable"

\* tab i is closed by its onExit callback in this step
Closes(i) == tabs[i].isTerminalOpen /\ ~tabs'[i].isTerminalOpen

C10_SeesStale       == \E i \in Tabs : observed[i] = "stale"
C10_SeesForeign     == \E i \in Tabs : observed[i] = "foreign"
C10_SeesUnparseable == \E i \in Tabs : observed[i] = "unparseable"
C10_SeesMissing     == \E i \in Tabs : observed[i] = "missing"

-----------------------------------------------------------------------------
(* Properties of the Terminal component (components/Terminal.tsx) *)

\* a call of sendKey on the Terminal of tab i
SentTo(i) == term'[i].keys = term[i].keys + 1

\* the precedence table of the key translation, first match wins
C14_Rules(key) ==
    << [when |-> key.ctrl /\ key.name = "c",  bytes |-> <<3>>],
       [when |-> key.ctrl /\ key.name = "d",  bytes |-> <<4>>],
       [when |-> key.name = "return",         bytes |-> <<13>>],
       [when |-> key.name = "backspace",      bytes |-> <<127>>],
       [when |-> key.name = "escape",         bytes |-> <<27>>],
       [when |-> key.name = "up",             bytes |-> <<27, 91, 65>>],
       [when |-> key.name = "down",           bytes |-> <<27, 91, 66>>],
       [when |-> key.name = "right",          bytes |-> <<27, 91, 67>>],
       [when |-> key.name = "left",           bytes |-> <<27, 91, 68>>],
       [when |-> key.sequence # Undefined /\ key.sequence # <<>>
                   /\ ~key.ctrl /\ ~key.meta, bytes |-> key.sequence] >>

C14_Expected(key) ==
    LET rules == C14_Rules(key)
        hits  == {k \in DOMAIN rules : rules[k].when}
    IN  IF hits = {} THEN Nothing
        ELSE rules[CHOOSE k \in hits : \A m \in hits : k <= m].bytes

\* C14: a sendKey call on a live session writes exactly the bytes of the
\* precedence table, in one write, and writes nothing for an event the table
\* does not cover.
C14_SendKeyTable ==
    [][\A i \in Tabs :
          (SentTo(i) /\ term[i].processRef) =>
              LET expected == C14_Expected(term'[i].lastKey) IN
              proc'[i].stdin = IF expected = Nothing THEN proc[i].stdin
                               ELSE Append(proc[i].stdin, expected)]_vars

\* the up arrow was written as ESC [ A, then ctrl+a was sent and nothing
\* was written for it
C14_Witness ==
    \E i \in Tabs :
        /\ term[i].processRef
        /\ proc[i].stdin = << <<27, 91, 65>> >>
        /\ term[i].keys = 2 /\ term[i].dropped = 0
        /\ term[i].lastKey = [name |-> "a", ctrl |-> TRUE, meta |-> FALSE,
                              sequence |-> <<97>>]

\* C15: once the exit event of the process was handled or the cleanup has
\* run, a sendKey call writes nothing and changes nothing of the process.
C15_DeadHandleNoOp ==
    [][\A i \in Tabs :
          (SentTo(i) /\ (proc[i].exits > 0 \/ ~term[i].startedRef)) =>
              proc' = proc]_vars

\* ctrl+c was written to the live session; return was sent after its exit
C15_Witness ==
    \E i \in Tabs :
        /\ proc[i].exits = 1
        /\ proc[i].stdin = << <<3>> >>
        /\ term[i].dropped = 1
        /\ term[i].lastKey.name = "return"

\* a is b with some elements left out
RECURSIVE IsSubseq(_, _)
IsSubseq(a, b) ==
    IF a = <<>> THEN TRUE
    ELSE IF b = <<>> THEN FALSE
    ELSE IF Head(a) = Head(b) THEN IsSubseq(Tail(a), Tail(b))
    ELSE IsSubseq(a, Tail(b))

IsPrefix(a, b) == Len(a) <= Len(b) /\ a = SubSeq(b, 1, Len(a))

\* C12: what the screen buffer was fed is, in order, an initial part of what
\* the helper wrote to its stdout, and the chunks the helper wrote are, in
\* order, chunks the child emitted: nothing is reordered by the detection
\* window, the pipe or the write buffer of xterm.
C12_OutputInOrder ==
    \A i \in Tabs :
        /\ IsSubseq(DataOf(helper[i].stdout), DataOf(hist[i].emitted))
        /\ IsPrefix(Flatten(proc[i].fed \o proc[i].queue),
                    Flatten(DataOf(helper[i].stdout)))
        /\ IsSubseq(Flatten(proc[i].fed), Flatten(DataOf(hist[i].emitted)))

\* a resumed session: the first chunk was held back inside the window, the
\* second was passed through after it and has reached the screen buffer
C12_Witness ==
    \E i \in Tabs :
        /\ StartedResume(i)
        /\ Len(hist[i].emitted) = 2
        /\ hist[i].emitted[1].inWindow /\ ~hist[i].emitted[2].inWindow
        /\ hist[i].emitted[1].data # hist[i].emitted[2].data
        /\ proc[i].fed = <<hist[i].emitted[2].data>>

\* C13: a closure has at most one debounce timer pending, a timer is pending
\* exactly while calls of scheduleUpdate are unanswered, and every burst of
\* calls is answered by exactly one render, after its last call.
C13_OneRenderPerBurst ==
    \A i \in Tabs :
        LET p == proc[i] IN
        /\ p.timers <= 1
        /\ p.pendingUpdate <=> p.timers = 1
        /\ p.timers = 1 <=> p.calls > 0
        /\ p.renders + p.timers = p.bursts

\* two chunks were parsed before the timer fired, and one render answered
\* both calls
C13_Witness ==
    \E i \in Tabs :
        /\ Len(proc[i].fed) = 2
        /\ proc[i].renders = 1 /\ proc[i].rendered = 2
        /\ proc[i].timers = 0

C16_CleanupIdempotent ==
    \A i \in Tabs :
        LET t1 == CleanupTerm(term[i])
            p1 == CleanupProc(term[i], proc[i], helper[i])
        IN
        /\ CleanupTerm(t1) = t1
        /\ CleanupProc(t1, p1, helper[i]) = p1
        /\ ~Alive(helper[i]) =>
              /\ p1.signals = proc[i].signals
              /\ p1.exits = proc[i].exits
        /\ \A s \in Procs : proc[s].exits <= 1

\* the process exited by itself, its exit event was handled, and the
\* cleanup of the unmount ran on the closed handle
C16_Witness ==
    \E i \in Tabs :
        /\ proc[i].exits = 1
        /\ ~term[i].startedRef
        /\ proc[i].xterm = "disposed"
        /\ ~proc[i].killed /\ proc[i].signals = 0

\* C17: when the helper of a torn-down session is gone, its child is not
\* running.
C17_NoDanglingChild ==
    \A s \in Procs : ~Alive(helper[s]) => ~proc[s].orphan

\* C18: a helper that has handled the termination signal has ended, and it
\* starts no child and writes no marker afterwards.
C18_NoRetryAfterTeardown ==
    [][\A s \in Procs :
          helper[s].torn =>
              /\ ~Alive(helper[s])
              /\ helper'[s].torn =>
                    /\ hist'[s].spawns = hist[s].spawns
                    /\ hist'[s].writes = hist[s].writes
                    /\ helper'[s].pc \in {"exited", "idle"}]_vars

\* a helper was torn down while the output of its resumed child held the
\* signature inside the window: the exit of that child would have been
\* answered by a restart
C18_Witness ==
    \E s \in Procs :
        /\ helper[s].torn
        /\ StartedResume(s)
        /\ ~helper[s].hasRetried
        /\ HasSignature(helper[s].outputBuffer)
        /\ elapsed(helper[s]) < DetectionWindow
        /\ Len(hist[s].spawns) = 1

\* C19: a helper has one child at a time, and a Terminal has one running
\* helper process at a time.
C19_OneLiveProcess ==
    /\ \A s \in Procs : Len(hist[s].spawns) <= Len(hist[s].exits) + 1
    /\ \A i \in Tabs :
          OldSlot(i) \in Procs => ~(Alive(helper[i]) /\ Alive(helper[OldSlot(i)]))

-----------------------------------------------------------------------------
(* Properties of the compositor (extractStyledText) *)

StyleOf(run) == <<run.fg, run.bg, run.attributes>>

IsNewline(run) == run.text = <<"\n">>

\* C20 as stated: no two adjacent runs of the extracted sequence have the
\* same (foreground, background, attributes).
C20_NoAdjacentSameStyle ==
    \A k \in 1..(Len(runs) - 1) : StyleOf(runs[k]) # StyleOf(runs[k + 1])

\* C20: two adjacent runs of one row never have the same (foreground,
\* background, attributes); a newline run carries no style and may stand
\* next to a run in the default style or to another newline run.
C20_NoAdjacentSameStyleInRow ==
    \A k \in 1..(Len(runs) - 1) :
        (~IsNewline(runs[k]) /\ ~IsNewline(runs[k + 1])) =>
            StyleOf(runs[k]) # StyleOf(runs[k + 1])

\* a letter and an empty cell of the same red, given in two colour modes,
\* were merged into one run, followed by a run in the default style
C20_Witness ==
    \E k \in 1..(Len(runs) - 1) :
        /\ runs[k].text = <<"b", " ">>
        /\ runs[k].fg = <<187, 0, 0>>
        /\ runs[k + 1].text = <<"a">>
        /\ runs[k + 1].fg = NoColor

\* C21: the extracted sequence is empty or ends with a run that holds a
\* character that is not whitespace, and a newline run is never the first
\* or the last run: it stands between the runs of two rows.
C21_NoTrailingBlank ==
    /\ runs # <<>> => ~IsBlank(runs[Len(runs)].text)
    /\ \A k \in DOMAIN runs : IsNewline(runs[k]) => (1 < k /\ k < Len(runs))

\* a screen whose second line is empty: the newline run and the run of the
\* empty line were removed, the runs of the first line are left
C21_Witness ==
    /\ runs # <<>>
    /\ \A x \in DOMAIN screen[2] : screen[2][x].chars = ""
    /\ \A k \in DOMAIN runs : ~IsNewline(runs[k])

\* the runs of each row: the sequence is split at the newline runs
RECURSIVE SplitRows(_, _)
SplitRows(rs, row) ==
    IF rs = <<>> THEN <<row>>
    ELSE IF IsNewline(Head(rs)) THEN <<row>> \o SplitRows(Tail(rs), <<>>)
    ELSE SplitRows(Tail(rs), Append(row, Head(rs)))

TextOf(rs) == Flatten([k \in DOMAIN rs |-> rs[k].text])

\* the characters of the visible cells of a line
RowChars(line) ==
    LET cells == SelectSeq(line, LAMBDA c : c.width # 0) IN
    [x \in DOMAIN cells |-> IF cells[x].chars = "" THEN " " ELSE cells[x].chars]

\* C29: the texts of the runs of a row, joined, are the characters of the
\* row without its trailing whitespace, and no run has an empty text.
C29_RowTextTrimmed ==
    runs # <<>> =>
        /\ \A y \in DOMAIN screen :
              LET rows == SplitRows(runs, <<>>) IN
              (IF y <= Len(rows) THEN TextOf(rows[y]) ELSE <<>>)
                  = trimEnd(RowChars(screen[y]))
        /\ \A k \in DOMAIN runs : runs[k].text # <<>>

\* C22: the indexes 232..255 of the 256-colour palette resolve to a gray
\* (R = G = B) inside 0..255 that starts at 8 and grows by 10 per index, so
\* the gray of the next index is larger.
C22_GrayRamp ==
    (resolved.done /\ resolved.mode = CM_P256 /\ resolved.color \in 232..255) =>
        LET c == resolved.rgba IN
        /\ Len(c) = 3
        /\ c[1] = c[2] /\ c[2] = c[3]
        /\ c[1] \in 0..255
        /\ c[1] = 8 + 10 * (resolved.color - 232)
        /\ resolved.color < 255 =>
              xtermColorToRGBA(resolved.color + 1, CM_P256)[1] > c[1]

\* the last index of the ramp was resolved
C22_Witness ==
    /\ resolved.done
    /\ resolved.mode = CM_P256 /\ resolved.color = 255
    /\ resolved.rgba = <<238, 238, 238>>

\* the lines of the viewport: rows lines from baseY on
ViewportLines == SubSeq(screen, viewport.baseY + 1, viewport.baseY + viewport.rows)

\* the child printed more lines than the screen has rows and the runs were
\* extracted after that
C30_Scrolled == viewport.fresh /\ viewport.baseY > 0 /\ budget.print > viewport.rows

\* C30: the runs extracted from a buffer are the runs of the lines of its
\* viewport.
C30_ShowsViewport ==
    viewport.fresh =>
        runs = extractStyledText(ViewportLines, Len(screen[1]), viewport.rows)

-----------------------------------------------------------------------------
(* Properties of the sessions of the dashboard (routes/__root) *)

\* the session of tab i has exited and its onExit callback has run
Handled(i) == helper[i].pc = "idle" /\ hist[i].exits # <<>>

\* the newSessionId of the retry of the session of tab i
RetryId(i) == hist[i].spawns[2].args[2]

\* C24: when the session of a tab has retried and written its marker, then
\* after the session has exited the tab's sessionId is the newSessionId of
\* the retry, however long the restarted child ran.
C24_RetryIdStored ==
    \A i \in Tabs :
        (Handled(i) /\ Retried(i) /\ hist[i].writes # <<>>) =>
            tabs[i].sessionId = RetryId(i)

\* C25: when the sessions of two tabs have each retried and written their
\* marker, each tab ends with the newSessionId of its own retry, unless the
\* tab found its own record too old: the record of one session is not
\* overwritten or consumed by the other.
C25_OwnRetryRecord ==
    \A i \in Tabs :
        (Handled(i) /\ Retried(i) /\ hist[i].writes # <<>> /\ observed[i] # "stale") =>
            tabs[i].sessionId = RetryId(i)

\* tab i is opened in this step, and the arguments its child is started with
Opens(i) == ~tabs[i].isTerminalOpen /\ tabs'[i].isTerminalOpen
StartArgs(i) == helper'[i].cmdArgs

\* the session ids the dashboard knows
KnownIds == {tabs[i].sessionId : i \in Tabs} \cup {Restored(i) : i \in Tabs}

\* C23: a tab without a session id is opened with --session-id and a fresh
\* id, which is stored; a tab with a stored session id is opened with
\* --resume and that id, also after a restart of the dashboard; a stored id
\* is never lost.
C23_OpenArguments ==
    [][ \A i \in Tabs :
          /\ Opens(i) =>
                IF Truthy(tabs[i].sessionId)
                THEN /\ StartArgs(i) = <<"--resume", tabs[i].sessionId>>
                     /\ tabs'[i].sessionId = tabs[i].sessionId
                ELSE /\ StartArgs(i) = <<"--session-id", tabs'[i].sessionId>>
                     /\ Truthy(tabs'[i].sessionId)
                     /\ tabs'[i].sessionId \notin KnownIds
          /\ Truthy(tabs[i].sessionId) => Truthy(tabs'[i].sessionId) ]_vars

\* a tab that was opened as a new session is open again after a restart of
\* the dashboard, resuming the stored id
C23_Witness ==
    \E i \in Tabs :
        /\ budget.restart > 0 /\ budget.open > 1
        /\ tabs[i].isTerminalOpen
        /\ tabs[i].sessionId = UUID(1)
        /\ helper[i].cmdArgs = <<"--resume", UUID(1)>>

\* the tab that holds the Terminal of process s
OwnerOf(s) == IF s \in Tabs THEN s ELSE s - Len(tabs)

\* C26: the exit event of a process changes isTerminalOpen, isNewSession
\* and sessionId of no tab but the one that owns the process.
C26_ExitChangesOwnTabOnly ==
    [][ \A s \in Procs :
          proc'[s].exits = proc[s].exits + 1 =>
              \A j \in Tabs \ {OwnerOf(s)} : tabs'[j] = tabs[j] ]_vars

\* the exit event of process s is handled in this step
ExitEvent(s) == proc'[s].exits = proc[s].exits + 1

\* C27: after the effect of a Terminal has run again, the exit event of the
\* process of the old effect does not clear the handle of the new process
\* and does not close the tab.
C27_OldExitLeavesNewSession ==
    [][ \A i \in Tabs :
          (OldSlot(i) \in Procs /\ ExitEvent(OldSlot(i)) /\ ~ExitEvent(i)) =>
              /\ term'[i].processRef = term[i].processRef
              /\ tabs'[i].isTerminalOpen = tabs[i].isTerminalOpen ]_vars

\* C28: after the cleanup of an effect has disposed the screen buffer, no
\* debounce timer of the effect is pending and no render runs.
C28_NoRenderAfterTeardown ==
    \A s \in Procs :
        proc[s].xterm = "disposed" => proc[s].timers = 0

====
